---- MODULE Spec2Model ----
(***************************************************************************)
(* naam: a tape of word-sized cells onto which a Builder emits             *)
(* {token, payload} instructions, and a CPU that dispatches them.          *)
(*                                                                         *)
(* Word positions are 0-based as in the source; the word at position p of  *)
(* a tape t is t[p + 1].                                                   *)
(***************************************************************************)
EXTENDS Integers, Sequences, FiniteSets, TLC

\* mem::size_of::<usize>() on a 64-bit target.
WordBytes == 8

\* Bounds of the model.
MaxInstr == 3       \* instructions emitted by the build code
MaxVal == 1         \* values carried by Return
MaxCounter == 1     \* initial value of ram.counter
MaxOffsets == 1     \* Offsets the build code keeps hold of
MaxCap == 4         \* words a storage of fixed capacity can hold
MaxForeign == 1     \* words on the tape of another session when an Offset is taken there

VARIABLES
    debug,          \* cfg(debug_assertions): debug_assert! is compiled in
    alloc,          \* cfg(feature = "alloc"): debug info is recorded
    cap,            \* the storage provider: a Vec, or one of fixed capacity
    ops,            \* history: the operations emitted so far, in order
    tape,           \* Vec<MaybeUninit<usize>>: the words of the tape
    debug_info,     \* DebugInfo.instructions: (word offset, instruction type)
    offsets,        \* the Offsets returned by Builder::offset() so far
    phase,          \* where the host program is (see Phases)
    addr,           \* the `addr` local of Dispatch::dispatch
    ram,            \* the SayItNTimesRam passed to Program::run
    ram0,           \* the value of ram when the current run began
    trace,          \* word positions dispatched in the current run
    why,            \* how the current run ended ("" while it has not)
    prev,           \* summary of the previous run (NoRun if not recorded)
    stack,          \* the handler activations that have not returned
    foreign,        \* the last Offset of another session that was resolved
    stale           \* history: the words the storage held when handed to
                    \* Program::new (NotRecorded if not recorded)

vars == <<debug, alloc, cap, ops, tape, debug_info, offsets, phase, addr, ram,
          ram0, trace, why, prev, stack, foreign, stale>>

\* The build configuration and the storage, fixed once the process runs.
cfg == <<debug, alloc, cap, stale>>

\* "returning": Halt has been produced under DirectThreadedCall and the
\* pending calls of exec::<Op> are returning, innermost first.
Phases == {"start", "build", "failed", "panicked", "ready", "running", "returning",
           "halted", "aborted"}

----------------------------------------------------------------------------
(* Words, operations and their encoding                                    *)

OpTypes == {"Nop", "Unreachable", "Return", "PrintLn", "JumpNTimes"}

\* A tape word. k = "token": a DispatchToken for operation type op.
\* k = "data": a payload word holding val; for the payload of an Offset,
\* at is the word position of the write cursor when the Offset was taken
\* (history only: no operation reads it). k = "uninit": MaybeUninit.
TokenWord(ty) == [k |-> "token", op |-> ty, val |-> 0, at |-> 0]
DataWord(v) == [k |-> "data", op |-> "", val |-> v, at |-> 0]
OffsetWord(o) == [k |-> "data", op |-> "", val |-> o.value, at |-> o.at]
UninitWord == [k |-> "uninit", op |-> "", val |-> 0, at |-> 0]

\* Operation values the build code emits.
NopOp == [type |-> "Nop", val |-> 0, at |-> 0]
UnreachableOp == [type |-> "Unreachable", val |-> 0, at |-> 0]
ReturnOp(v) == [type |-> "Return", val |-> v, at |-> 0]
PrintLnOp == [type |-> "PrintLn", val |-> 0, at |-> 0]

\* An operation of a type aligned to two words, such as one holding a u128.
OverAlignedOp == [type |-> "OverAligned", val |-> 0, at |-> 0]
JumpNTimesOp(o) == [type |-> "JumpNTimes", val |-> o.value, at |-> o.at]

\* mem::size_of::<Instruction<Op>>() / mem::size_of::<usize>(): one word of
\* token, then the operation: nothing for the unit structs, one word for a
\* usize or an Offset, two for a &str.
SizeInWords(ty) ==
    CASE ty = "Nop" -> 1
      [] ty = "Unreachable" -> 1
      [] ty = "Return" -> 2
      [] ty = "JumpNTimes" -> 2
      [] ty = "PrintLn" -> 3
      [] ty = "OverAligned" -> 4

\* mem::align_of::<Instruction<Op>>(): that of the token, a usize, unless
\* the operation asks for more.
align_of_instruction(ty) == IF ty = "OverAligned" THEN 2 * WordBytes ELSE WordBytes

\* get_dispatch_token handing out exec::<Nop> whatever Op is.
get_dispatch_token_of_nop(ty) == TokenWord("Nop")

\* GetDispatchToken::get_dispatch_token: exec::<Op> as usize.
get_dispatch_token(ty) == TokenWord(ty)

\* Instruction { token, op } laid out as words (repr(C)).
Instruction(op) ==
    <<get_dispatch_token(op.type)>> \o
    ( CASE op.type = "Return" -> <<DataWord(op.val)>>
        [] op.type = "JumpNTimes" -> <<OffsetWord([value |-> op.val, at |-> op.at])>>
        [] op.type = "PrintLn" -> <<DataWord(0), DataWord(0)>>
        [] OTHER -> <<>> )

Word(t, p) == t[p + 1]
InTape(t, p) == p \in 0 .. (Len(t) - 1)

----------------------------------------------------------------------------
(* Storage provider and Builder                                            *)

\* AsClearedWriter for Vec handing out the Vec as it is.
as_writer_kept(t) == t

\* AsClearedWriter for Vec: self.clear().
as_cleared_writer(t) == <<>>

\* Writer for Vec: self.len().
word_offset(t) == Len(t)

\* Writer for Vec::take: reserve, set_len(len + words); the new words are
\* uninitialised until the caller writes them.
take(t, words) == t \o [i \in 1 .. words |-> UninitWord]

\* ptr::write through the base of the tape instead of the slice taken.
ptr_write_at_base(t, at, ws) ==
    [i \in 1 .. Len(t) |-> IF i <= Len(ws) THEN ws[i] ELSE t[i]]

\* ptr::write(slice.as_mut_ptr(), instruction) on the slice taken at `at`.
ptr_write(t, at, ws) ==
    [i \in 1 .. Len(t) |-> IF i > at /\ i <= at + Len(ws) THEN ws[i - at] ELSE t[i]]

\* Builder::emit: the tape after a successful emit of op.
emit_tape(t, op) ==
    LET size_in_words == SizeInWords(op.type)
        offset == word_offset(t)
    IN  ptr_write(take(t, size_in_words), offset, Instruction(op))

\* Builder::emit pushing the cursor in bytes.
emit_info_in_bytes(t, di, op) ==
    Append(di, [offset |-> word_offset(t) * WordBytes, type |-> op.type])

\* Builder::emit: the debug info after a successful emit of op.
emit_info(t, di, op) == Append(di, [offset |-> word_offset(t), type |-> op.type])

\* Dump for DebugInstruction: dumper.tape.add(self.0), the word of the tape
\* the entry is rendered from (the pointer is to words).
dump_position(entry) == entry.offset

\* The storage behind the Writer: a Vec, which grows on demand, or a
\* storage that can hold `words` words and no more.
VecStorage == [bounded |-> FALSE, words |-> 0]
FixedStorage(n) == [bounded |-> TRUE, words |-> n]

\* Writer::take(words) returns Ok: always for a Vec; for a storage of fixed
\* capacity, when the words fit.
take_ok(t, c, words) == ~c.bounded \/ word_offset(t) + words <= c.words

\* Builder::emit: how the call ends. The alignment is looked at first
\* (panic), then the storage is taken (`?` on Writer::take).
emit_result(t, c, op) ==
    IF align_of_instruction(op.type) # WordBytes THEN "panic"
    ELSE IF ~take_ok(t, c, SizeInWords(op.type)) THEN "err"
    ELSE "ok"

\* Builder::emit handing back a cleared tape when it fails.
tape_at_failure_cleared(t, op) == <<>>

\* Builder::emit leaving the words it took on the tape when it fails.
tape_at_failure_taken(t, op) == take(t, SizeInWords(op.type))

\* Builder::emit: the tape when the call does not return Ok. The panic
\* comes before Writer::take, and a take that fails hands out nothing.
tape_at_failure(t, op) == t

\* Builder::emit writing the recorded offset to the tape as well.
emit_records_on_tape(t, di, op, rec) ==
    [tape |-> IF rec THEN take(emit_tape(t, op), 1) ELSE emit_tape(t, op),
     info |-> IF rec THEN emit_info(t, di, op) ELSE di]

\* Builder::emit returning Ok(()): the tape and the debug info after it.
\* The lines under cfg(feature = "alloc") read the cursor and push an entry.
emit(t, di, op, rec) ==
    [tape |-> emit_tape(t, op),
     info |-> IF rec THEN emit_info(t, di, op) ELSE di]

\* Program::new going on to return a Program when the build code failed.
new_after_build_goes_on(result) == "ready"

\* Program::new after code.deref().build(&mut builder) (`?`): it goes on
\* to the sentinel, or returns the error of the build code.
new_after_build(result) == IF result = "ok" THEN "build" ELSE "failed"

\* Program::new unwrapping the result of emitting the sentinel.
new_after_emit_unwraps(result) == IF result = "ok" THEN "ready" ELSE "panicked"

\* Program::new after builder.emit(Unreachable) (`?`): Ok(Program) or Err.
new_after_emit(result) == IF result = "ok" THEN "ready" ELSE "failed"

\* Program::new returning the tape as the build code left it.
sentinel_forgotten(t) == t

\* Program::new after the build code returned Ok: builder.emit(Unreachable).
sentinel(t) == emit_tape(t, UnreachableOp)

\* Builder::offset: the cursor in words times size_of::<usize>().
\* (wrapping_mul cannot wrap for the tape lengths of the model.)
offset(t) == [value |-> word_offset(t) * WordBytes, at |-> word_offset(t)]

----------------------------------------------------------------------------
(* Runner, Pc and the operations                                           *)

RamDomain == [rval : 0 .. MaxVal, counter : 0 .. MaxCounter]

\* What a handler hands back to the CPU: Ok(addr), Err(Halt), or a panic.
Continue(a, r) == [kind |-> "next", addr |-> a, ram |-> r, msg |-> ""]
HaltWith(r) == [kind |-> "halt", addr |-> 0, ram |-> r, msg |-> ""]
Panic(m, r) == [kind |-> "panic", addr |-> 0, ram |-> r, msg |-> m]

\* Pc::next adding the size of the record in bytes to a position in words.
next_by_bytes(pc, ty) == pc + SizeInWords(ty) * WordBytes

\* Pc::next advancing over the token alone.
next_token_only(pc, ty) == pc + 1

\* Pc::next: (self.instruction as *const Instruction<Op>).add(1).
next(pc, ty) == pc + SizeInWords(ty)

\* Deref for Pc: &self.instruction.op, the words after the token.
op_field(t, pc) == Word(t, pc + 1)

\* resolve_offset without its assertion.
resolve_offset_unchecked(t, value, dbg, r) == Continue(value, r)

\* Runner::resolve_offset: debug_assert!(offset.value < self.tape.len()),
\* then self.tape.get_unchecked(offset.value). Without the assertion an
\* index outside the tape gives a pointer outside the tape.
resolve_offset(t, value, dbg, r) ==
    IF dbg /\ ~(value < Len(t))
    THEN Panic("assertion failed: offset.value < self.tape.len()", r)
    ELSE Continue(value, r)

\* Nop::execute stepping over a payload word Nop does not have.
NopExecute_skips_word(t, pc, r, dbg) == Continue(pc + 2, r)

\* builtins::Nop::execute
NopExecute(t, pc, r, dbg) == Continue(next(pc, "Nop"), r)

\* Unreachable::execute falling through like Nop.
UnreachableExecute_falls_through(t, pc, r, dbg) == Continue(pc + 1, r)

\* builtins::Unreachable::execute
UnreachableExecute(t, pc, r, dbg) == Panic("reached unreachable tape", r)

\* examples/say-it-thrice.rs: Return::execute
ReturnExecute(t, pc, r, dbg) == HaltWith([r EXCEPT !.rval = op_field(t, pc).val])

\* examples/say-it-thrice.rs: PrintLn::execute
PrintLnExecute(t, pc, r, dbg) == Continue(next(pc, "PrintLn"), r)

\* examples/say-it-thrice.rs: JumpNTimes::execute
JumpNTimesExecute(t, pc, r, dbg) ==
    IF r.counter > 0
    THEN resolve_offset(t, op_field(t, pc).val, dbg, [r EXCEPT !.counter = r.counter - 1])
    ELSE Continue(next(pc, "JumpNTimes"), r)

\* exec::<Op>: Op::execute(Pc::from_addr(addr), runner, ram).
exec(ty, t, a, r, dbg) ==
    CASE ty = "Nop" -> NopExecute(t, a, r, dbg)
      [] ty = "Unreachable" -> UnreachableExecute(t, a, r, dbg)
      [] ty = "Return" -> ReturnExecute(t, a, r, dbg)
      [] ty = "PrintLn" -> PrintLnExecute(t, a, r, dbg)
      [] ty = "JumpNTimes" -> JumpNTimesExecute(t, a, r, dbg)

\* An address is dispatchable when the word it points at is inside the tape
\* and holds a dispatch token. Transmuting anything else to a function
\* pointer and calling it is undefined behaviour.
Dispatchable(t, a) == InTape(t, a) /\ Word(t, a).k = "token"

\* The loop ignoring Err(Halt) and dispatching the same address again.
loop_iteration_ignores_halt(a, res) ==
    CASE res.kind = "next" -> [phase |-> "running", addr |-> res.addr, ram |-> res.ram, why |-> ""]
      [] res.kind = "halt" -> [phase |-> "running", addr |-> a, ram |-> res.ram, why |-> ""]
      [] res.kind = "panic" -> [phase |-> "aborted", addr |-> a, ram |-> res.ram, why |-> res.msg]

\* The loop forgetting `addr = next`.
loop_iteration_keeps_addr(a, res) ==
    CASE res.kind = "next" -> [phase |-> "running", addr |-> a, ram |-> res.ram, why |-> ""]
      [] res.kind = "halt" -> [phase |-> "halted", addr |-> a, ram |-> res.ram, why |-> "halt"]
      [] res.kind = "panic" -> [phase |-> "aborted", addr |-> a, ram |-> res.ram, why |-> res.msg]

\* DirectThreadedLoop::dispatch, one iteration of the loop:
\*   match function(addr, runner, ram) { Ok(next) => addr = next, Err(_) => return }
\* given the handler's result; a panic unwinds out of the loop.
loop_iteration(a, res) ==
    CASE res.kind = "next" -> [phase |-> "running", addr |-> res.addr, ram |-> res.ram, why |-> ""]
      [] res.kind = "halt" -> [phase |-> "halted", addr |-> a, ram |-> res.ram, why |-> "halt"]
      [] res.kind = "panic" -> [phase |-> "aborted", addr |-> a, ram |-> res.ram, why |-> res.msg]

\* exec::<Op> of DirectThreadedCall stored as the token: it dispatches the
\* next address itself instead of returning it.
exec_dispatches(res) == IF res.kind = "next" THEN "dispatch" ELSE "return"

\* exec::<Op> of DirectThreadedCall returning without a dispatch.
call_exec_returns(res) == "return"

\* exec::<Op> of DirectThreadedCall, given the result of Op::execute:
\*   Ok(addr) => Self.dispatch(addr, runner, ram, env), Err(_) => ()
call_exec(res) == IF res.kind = "next" THEN "dispatch" ELSE "return"

\* exec::<Op> of DirectThreadedLoop, given the result of Op::execute: it
\* returns the Destination to its caller, the loop.
loop_exec(res) == "return"

\* run clearing the tape it was given.
tape_as_ref_cleared(t) == <<>>

\* Program::run: self.tape.as_ref(), a shared borrow of the words.
tape_as_ref(t) == t

\* run resuming at the address the previous run stopped at.
start_addr_resumes(t, a) == a

\* Program::run: the address of the first word of the tape.
start_addr(t, a) == 0

\* DirectThreadedLoop::dispatch as a function: the loop on tape t, entered
\* by Program::run with ram r, after n iterations (fewer if it has ended),
\* with the addresses it dispatched. phase = "undefined": the last
\* address was not dispatchable, and what follows is not defined.
RECURSIVE LoopRun(_, _, _, _)
LoopRun(t, r, dbg, n) ==
    IF n = 0
    THEN [phase |-> "running", addr |-> start_addr(t, 0), ram |-> r, why |-> "", trace |-> <<>>]
    ELSE LET s == LoopRun(t, r, dbg, n - 1)
         IN  IF s.phase # "running" THEN s
             ELSE IF ~Dispatchable(t, s.addr)
             THEN [s EXCEPT !.phase = "undefined", !.trace = Append(s.trace, s.addr)]
             ELSE LET nxt == loop_iteration(s.addr, exec(Word(t, s.addr).op, t, s.addr, s.ram, dbg))
                  IN  [phase |-> nxt.phase, addr |-> nxt.addr, ram |-> nxt.ram,
                       why |-> nxt.why, trace |-> Append(s.trace, s.addr)]

NoRun == [ram0 |-> [rval |-> 0, counter |-> 0], trace |-> <<>>,
          ram |-> [rval |-> 0, counter |-> 0], phase |-> "none", why |-> ""]

----------------------------------------------------------------------------
(* The state machine                                                       *)

\* Words a storage handed to Program::new may already hold.
StaleTapes == {<<>>, <<DataWord(0)>>, Instruction(ReturnOp(MaxVal))}

\* `foreign` when the last step resolved no Offset of another session;
\* value and rejected say which it resolved and how that went.
NoForeign == [resolved |-> FALSE, value |-> 0, rejected |-> FALSE]

NotRecorded == [recorded |-> FALSE, words |-> <<>>]

\* The state before Program::new, whatever the configuration and the storage.
InitState ==
    /\ debug \in BOOLEAN
    /\ ops = <<>>
    /\ tape \in StaleTapes
    /\ debug_info = <<>>
    /\ offsets = {}
    /\ phase = "start"
    /\ addr = 0
    /\ ram = [rval |-> 0, counter |-> 0]
    /\ ram0 = [rval |-> 0, counter |-> 0]
    /\ trace = <<>>
    /\ why = ""
    /\ prev = NoRun
    /\ stack = <<>>
    /\ foreign = NoForeign

\* The same, with no record kept of what the storage held.
InitProgram ==
    /\ InitState
    /\ stale = NotRecorded

\* The tape is a Vec and debug info is recorded (features std and alloc).
Init ==
    /\ InitProgram
    /\ alloc = TRUE
    /\ cap = VecStorage

\* Program::new up to the call of the build code: Builder::new.
New ==
    /\ phase = "start"
    /\ tape' = as_cleared_writer(tape)
    /\ debug_info' = <<>>
    /\ phase' = "build"
    /\ UNCHANGED <<cfg, ops, offsets, addr, ram, ram0, trace, why, prev, stack, foreign>>

\* The operations the build code can emit now, those of the example (Nop,
\* PrintLn, JumpNTimes, Return): an operation that carries an Offset carries
\* one that offset() has returned.
Emittable ==
    {NopOp, PrintLnOp}
        \cup {ReturnOp(v) : v \in 1 .. MaxVal}
        \cup {JumpNTimesOp(o) : o \in offsets}

\* Builder::emit(op), called by the build code, returning Ok(()).
Emit(op) ==
    /\ phase = "build"
    /\ emit_result(tape, cap, op) = "ok"
    /\ tape' = emit(tape, debug_info, op, alloc).tape
    /\ debug_info' = emit(tape, debug_info, op, alloc).info
    /\ ops' = Append(ops, op)
    /\ UNCHANGED <<cfg, offsets, phase, addr, ram, ram0, trace, why, prev, stack, foreign>>

\* Builder::emit(op) returning Err(UnexpectedEndError) to the build code,
\* which returns it (`?`, as build of the example does), and Program::new
\* returns it in turn (`?`).
EmitErr(op) ==
    /\ phase = "build"
    /\ emit_result(tape, cap, op) = "err"
    /\ tape' = tape_at_failure(tape, op)
    /\ phase' = "failed"
    /\ why' = "UnexpectedEndError"
    /\ UNCHANGED <<cfg, ops, debug_info, offsets, addr, ram, ram0, trace, prev, stack, foreign>>

\* Builder::emit(op) panicking on the alignment of Instruction<Op>.
EmitPanic(op) ==
    /\ phase = "build"
    /\ emit_result(tape, cap, op) = "panic"
    /\ tape' = tape_at_failure(tape, op)
    /\ phase' = "panicked"
    /\ why' = "instruction is over-aligned"
    /\ UNCHANGED <<cfg, ops, debug_info, offsets, addr, ram, ram0, trace, prev, stack, foreign>>

\* Builder::offset(), called by the build code, which keeps the result.
TakeOffset ==
    /\ phase = "build"
    /\ Cardinality(offsets \cup {offset(tape)}) <= MaxOffsets
    /\ offset(tape) \notin offsets
    /\ offsets' = offsets \cup {offset(tape)}
    /\ UNCHANGED <<cfg, ops, tape, debug_info, phase, addr, ram, ram0, trace, why, prev, stack, foreign>>

\* The build code returns Ok(()): Program::new emits Unreachable and
\* returns the Program.
BuildOk ==
    /\ phase = "build"
    /\ emit_result(tape, cap, UnreachableOp) = "ok"
    /\ tape' = sentinel(tape)
    /\ debug_info' = emit(tape, debug_info, UnreachableOp, alloc).info
    /\ ops' = Append(ops, UnreachableOp)
    /\ phase' = "ready"
    /\ UNCHANGED <<cfg, offsets, addr, ram, ram0, trace, why, prev, stack, foreign>>

\* The build code returns Ok(()), and builder.emit(Unreachable) returns
\* Err(UnexpectedEndError): Program::new returns it (`?`).
SentinelErr ==
    /\ phase = "build"
    /\ emit_result(tape, cap, UnreachableOp) = "err"
    /\ tape' = tape_at_failure(tape, UnreachableOp)
    /\ phase' = new_after_emit("err")
    /\ why' = "UnexpectedEndError"
    /\ UNCHANGED <<cfg, ops, debug_info, offsets, addr, ram, ram0, trace, prev, stack, foreign>>

\* The build code returns its own error: Program::new returns it (`?`).
BuildErr ==
    /\ phase = "build"
    /\ phase' = new_after_build("err")
    /\ why' = "build error"
    /\ UNCHANGED <<cfg, ops, tape, debug_info, offsets, addr, ram, ram0, trace, prev, stack, foreign>>

\* The rams a host passes to run: a fresh one, or the one it passed before.
RunRams == {[rval |-> 0, counter |-> c] : c \in 0 .. MaxCounter} \cup {ram}

\* Program::run(&mut ram) up to the first iteration of the dispatch loop.
Run(r) ==
    /\ phase \in {"ready", "halted"}
    /\ tape' = tape_as_ref(tape)
    /\ addr' = start_addr(tape, addr)
    /\ ram' = r
    /\ ram0' = r
    /\ trace' = <<>>
    /\ why' = ""
    /\ phase' = "running"
    /\ prev' = NoRun
    /\ foreign' = NoForeign
    /\ UNCHANGED <<cfg, ops, debug_info, offsets, stack>>

\* One iteration of the loop of DirectThreadedLoop::dispatch at a
\* dispatchable address.
Dispatch ==
    /\ phase = "running"
    /\ Dispatchable(tape, addr)
    /\ LET res == exec(Word(tape, addr).op, tape, addr, ram, debug)
           nxt == loop_iteration(addr, res)
       IN  /\ phase' = nxt.phase
           /\ addr' = nxt.addr
           /\ ram' = nxt.ram
           /\ why' = nxt.why
    /\ trace' = Append(trace, addr)
    /\ foreign' = NoForeign
    /\ UNCHANGED <<cfg, ops, tape, debug_info, offsets, ram0, prev, stack>>

\* One iteration of the loop at an address that is not dispatchable: the
\* word read as a token is a payload word or lies outside the tape, and the
\* call through it is undefined behaviour. The process may die, or the call
\* may come back as Halt, with the ram in any state.
DispatchUndefined ==
    /\ phase = "running"
    /\ ~Dispatchable(tape, addr)
    /\ \E end \in {"halted", "aborted"}, r \in RamDomain :
          /\ phase' = end
          /\ ram' = r
    /\ why' = "undefined behaviour"
    /\ trace' = Append(trace, addr)
    /\ foreign' = NoForeign
    /\ stack' = <<>>
    /\ UNCHANGED <<cfg, ops, tape, debug_info, offsets, addr, ram0, prev>>

\* The host runs the program a second time with a ram equal to the one the
\* run that just ended began with, and keeps what that run did. After a
\* panic this is a host that caught the unwinding.
RunAgain ==
    /\ phase \in {"halted", "aborted"}
    /\ prev = NoRun
    /\ prev' = [ram0 |-> ram0, trace |-> trace, ram |-> ram, phase |-> phase, why |-> why]
    /\ addr' = start_addr(tape, addr)
    /\ ram' = ram0
    /\ trace' = <<>>
    /\ why' = ""
    /\ phase' = "running"
    /\ foreign' = NoForeign
    /\ UNCHANGED <<cfg, ops, tape, debug_info, offsets, ram0, stack>>

Next ==
    \/ New
    \/ \E op \in Emittable : Len(ops) < MaxInstr /\ Emit(op)
    \/ TakeOffset
    \/ BuildOk
    \/ BuildErr
    \/ \E r \in RunRams : Run(r)
    \/ Dispatch
    \/ DispatchUndefined

Spec == Init /\ [][Next]_vars

\* The loop of dispatch runs to its end once run has been called.
FairSpec == Spec /\ WF_vars(Dispatch) /\ WF_vars(DispatchUndefined)

\* Two runs in succession from equal rams.
TwiceSpec == Init /\ [][Next \/ RunAgain]_vars

\* Builds with and without the recording of debug info.
InfoInit ==
    /\ InitProgram
    /\ alloc \in BOOLEAN
    /\ cap = VecStorage

InfoSpec == InfoInit /\ [][Next]_vars

\* Offsets returned by Builder::offset() in another session, whose writer
\* stood at word 0 .. MaxForeign. The Id<'tape> of an Offset is a
\* PhantomData: the value is all an Offset holds when the program runs.
ForeignOffsets == {offset(take(<<>>, k)) : k \in 0 .. MaxForeign}

\* The first iteration of the loop, in which the handler resolves an Offset
\* of another session with runner.resolve_offset and returns what it gets.
ResolveForeign(o) ==
    /\ phase = "running"
    /\ trace = <<>>
    /\ Dispatchable(tape, addr)
    /\ LET res == resolve_offset(tape, o.value, debug, ram)
           nxt == loop_iteration(addr, res)
       IN  /\ phase' = nxt.phase
           /\ addr' = nxt.addr
           /\ ram' = nxt.ram
           /\ why' = nxt.why
           /\ foreign' = [resolved |-> TRUE, value |-> o.value, rejected |-> res.kind = "panic"]
    /\ trace' = Append(trace, addr)
    /\ UNCHANGED <<cfg, ops, tape, debug_info, offsets, ram0, prev, stack>>

ForeignSpec == Init /\ [][Next \/ \E o \in ForeignOffsets : ResolveForeign(o)]_vars

\* DirectThreadedLoop::dispatch in two steps, the call of a handler and its
\* return. A frame of `stack` is a call of exec::<Op> that has not
\* returned: st = "body" while Op::execute runs, st = "tail" once exec has
\* itself dispatched the next address and waits for that call to return.

\* function(addr, runner, ram): the handler of the token at addr is called.
HandlerCall ==
    /\ phase = "running"
    /\ IF stack = <<>> THEN TRUE ELSE stack[Len(stack)].st = "tail"
    /\ Dispatchable(tape, addr)
    /\ stack' = Append(stack, [addr |-> addr, st |-> "body"])
    /\ trace' = Append(trace, addr)
    /\ UNCHANGED <<cfg, ops, tape, debug_info, offsets, phase, addr, ram, ram0, why, prev, foreign>>

\* Op::execute of the innermost call ends, and exec::<Op> goes on: it
\* returns the result to the loop, which takes it as one iteration does; a
\* panic unwinds every call.
HandlerReturn ==
    /\ phase = "running"
    /\ stack # <<>>
    /\ stack[Len(stack)].st = "body"
    /\ LET top == stack[Len(stack)]
           res == exec(Word(tape, top.addr).op, tape, top.addr, ram, debug)
           nxt == loop_iteration(top.addr, res)
       IN  /\ phase' = nxt.phase
           /\ addr' = nxt.addr
           /\ ram' = nxt.ram
           /\ why' = nxt.why
           /\ stack' = IF res.kind = "panic" THEN <<>>
                        ELSE IF loop_exec(res) = "return" THEN SubSeq(stack, 1, Len(stack) - 1)
                        ELSE [stack EXCEPT ![Len(stack)].st = "tail"]
    /\ UNCHANGED <<cfg, ops, tape, debug_info, offsets, ram0, trace, prev, foreign>>

StackNext ==
    \/ New
    \/ \E op \in Emittable : Len(ops) < MaxInstr /\ Emit(op)
    \/ TakeOffset
    \/ BuildOk
    \/ BuildErr
    \/ \E r \in RunRams : Run(r)
    \/ HandlerCall
    \/ HandlerReturn
    \/ DispatchUndefined

StackSpec == Init /\ [][StackNext]_vars

\* DirectThreadedCall. dispatch calls the handler of the token at addr
\* (HandlerCall); exec::<Op> runs Op::execute and then calls dispatch for
\* the address it got, or returns.

\* Op::execute of the innermost call ends, and exec::<Op> goes on. A panic
\* unwinds every call.
CallExec ==
    /\ phase = "running"
    /\ stack # <<>>
    /\ stack[Len(stack)].st = "body"
    /\ LET top == stack[Len(stack)]
           rest == SubSeq(stack, 1, Len(stack) - 1)
           res == exec(Word(tape, top.addr).op, tape, top.addr, ram, debug)
       IN  /\ ram' = res.ram
           /\ IF res.kind = "panic"
              THEN phase' = "aborted" /\ why' = res.msg /\ stack' = <<>> /\ addr' = addr
              ELSE IF call_exec(res) = "dispatch"
              THEN /\ phase' = "running"
                   /\ why' = ""
                   /\ stack' = [stack EXCEPT ![Len(stack)].st = "tail"]
                   /\ addr' = res.addr
              ELSE /\ phase' = IF rest = <<>> THEN "halted" ELSE "returning"
                   /\ why' = "halt"
                   /\ stack' = rest
                   /\ addr' = addr
    /\ UNCHANGED <<cfg, ops, tape, debug_info, offsets, ram0, trace, prev, foreign>>

\* The dispatch an exec::<Op> had called has returned, and it returns too.
CallReturn ==
    /\ phase = "returning"
    /\ stack # <<>>
    /\ stack' = SubSeq(stack, 1, Len(stack) - 1)
    /\ phase' = IF Len(stack) = 1 THEN "halted" ELSE "returning"
    /\ UNCHANGED <<cfg, ops, tape, debug_info, offsets, addr, ram, ram0, trace, why, prev, foreign>>

CallNext ==
    \/ New
    \/ \E op \in Emittable : Len(ops) < MaxInstr /\ Emit(op)
    \/ TakeOffset
    \/ BuildOk
    \/ BuildErr
    \/ \E r \in RunRams : Run(r)
    \/ HandlerCall
    \/ CallExec
    \/ CallReturn
    \/ DispatchUndefined

CallSpec == Init /\ [][CallNext]_vars

\* Every call returns in the end, and the run goes on while it can.
CallFairSpec ==
    CallSpec /\ WF_vars(HandlerCall) /\ WF_vars(CallExec) /\ WF_vars(CallReturn)
        /\ WF_vars(DispatchUndefined)

\* A storage of fixed capacity, and build code that may emit an operation
\* of an over-aligned type.
BuildInit ==
    /\ InitProgram
    /\ alloc = TRUE
    /\ cap \in {FixedStorage(n) : n \in 0 .. MaxCap}

BuildNext ==
    \/ Next
    \/ \E op \in Emittable : EmitErr(op)
    \/ EmitPanic(OverAlignedOp)
    \/ SentinelErr

BuildSpec == BuildInit /\ [][BuildNext]_vars

\* Program::new on a storage whose words from an earlier use are kept on
\* record, to compare the finished tape with.
StaleInit ==
    /\ InitState
    /\ stale = [recorded |-> TRUE, words |-> tape]
    /\ alloc = TRUE
    /\ cap = VecStorage

StaleSpec == StaleInit /\ [][Next]_vars

----------------------------------------------------------------------------
(* The example: examples/say-it-thrice.rs                                  *)

\* main: the value Return carries and the counter the ram starts with.
ExampleRval == 42
ExampleCounter == 2

\* SayItNTimes::build, statement by statement:
\*   builder.emit(Nop)?;
\*   let print_hello_world = builder.offset();
\*   builder.emit(PrintLn(self.0))?;
\*   builder.emit(JumpNTimes(print_hello_world))?;
\*   builder.emit(Return(42))
\* and the same build code without its first statement, whose loop begins
\* at the first word of the tape.
SayItNTimesBuild ==
    \/ ops = <<>> /\ offsets = {} /\ Emit(NopOp)
    \/ Len(ops) <= 1 /\ offsets = {} /\ TakeOffset
    \/ offsets # {} /\ (ops = <<>> \/ ops = <<NopOp>>) /\ Emit(PrintLnOp)
    \/ ops # <<>> /\ ops[Len(ops)].type = "PrintLn" /\ \E o \in offsets : Emit(JumpNTimesOp(o))
    \/ ops # <<>> /\ ops[Len(ops)].type = "JumpNTimes"
           /\ \E v \in (1 .. MaxVal) \cup {ExampleRval} : Emit(ReturnOp(v))
    \/ ops # <<>> /\ ops[Len(ops)].type = "Return" /\ BuildOk

\* main: SayItNTimesRam { rval: 0, counter: 2 }, and other counters.
ExampleRams == {[rval |-> 0, counter |-> n] : n \in 0 .. (ExampleCounter + MaxCounter)}

ExampleNext ==
    \/ New
    \/ SayItNTimesBuild
    \/ \E r \in ExampleRams : Run(r)
    \/ Dispatch

ExampleSpec == Init /\ [][ExampleNext]_vars

----------------------------------------------------------------------------
(* Properties                                                              *)

\* A Program exists: Program::new returned Ok.
Built == phase \in {"ready", "running", "returning", "halted", "aborted"}

\* The word positions at which the emitted instructions begin.
InstrStarts == {debug_info[i].offset : i \in 1 .. Len(debug_info)}

\* The word position of the last instruction of the tape.
LastStart == debug_info[Len(debug_info)].offset

\* The instructions of the tape that carry an Offset.
Jumps == {i \in 1 .. Len(debug_info) : debug_info[i].type = "JumpNTimes"}

\* No instruction jumps to itself or to an earlier instruction.
NoBackwardJump ==
    \A i \in Jumps : op_field(tape, debug_info[i].offset).at > debug_info[i].offset

\* C1: every Address that is dispatched in a run (the start address, an
\* address from Pc::next(), an address from resolve_offset() of an Offset of
\* the session) is the word position at which an instruction begins.
C1_AddressInvariant == phase = "running" => addr \in InstrStarts

\* C2: an Offset taken by offset() immediately before emit(I) resolves, in
\* the finished program, to the Address at which I starts.
C2_OffsetResolvesToTarget ==
    Built =>
        \A o \in offsets :
            o.at \in InstrStarts =>
                LET res == resolve_offset(tape, o.value, debug, ram)
                IN  res.kind = "next" /\ res.addr = o.at

\* C3: the tape of every Program ends with the Unreachable sentinel, which
\* Program::new appends once, after everything the build code emitted; the
\* tape does not change afterwards.
C3_SentinelLast ==
    /\ [](Built =>
            /\ Len(debug_info) >= 1
            /\ debug_info[Len(debug_info)].type = "Unreachable"
            /\ LastStart = Len(tape) - 1
            /\ Word(tape, LastStart) = get_dispatch_token("Unreachable"))
    /\ [][ /\ (phase = "build" /\ phase' = "ready") =>
                /\ tape' = Append(tape, get_dispatch_token("Unreachable"))
                /\ debug_info' = Append(debug_info, [offset |-> Len(tape), type |-> "Unreachable"])
           /\ Built => (tape' = tape /\ debug_info' = debug_info) ]_vars

C3_Witness == phase = "ready" /\ Len(debug_info) = 3 /\ debug_info[2].type = "PrintLn"

\* C4: every Offset taken during a build that succeeded satisfies the
\* precondition resolve_offset asserts against the finished tape.
C4_OffsetsInBounds == Built => \A o \in offsets : o.value < Len(tape)

\* C5: every run starts dispatching at word 0, whatever the previous run
\* did, and a program that halted can be run again.
C5_RunStartsAtZero ==
    /\ (phase = "running" /\ trace = <<>>) => addr = 0
    /\ trace # <<>> => trace[1] = 0
    /\ phase \in {"ready", "halted"} => ENABLED (\E r \in RunRams : Run(r))

\* A run begins after an earlier run halted at an instruction other than
\* the first.
C5_Witness ==
    /\ phase = "running" /\ trace = <<>>
    /\ ram.rval # 0
    /\ Word(tape, 0).op # "Return"

\* C6: an iteration of the dispatch loop calls the handler of the token at
\* the current address; on Ok(next) the current address becomes next and
\* the loop goes on, on Err(Halt) the loop returns, and after that no
\* handler runs in this run. A handler gives Ok, Err, or does not return.
C6_LoopDispatch ==
    /\ [][ (phase = "running" /\ Dispatchable(tape, addr)) =>
              LET res == exec(Word(tape, addr).op, tape, addr, ram, debug)
              IN  /\ trace' = Append(trace, addr)
                  /\ res.kind \in {"next", "halt", "panic"}
                  /\ res.kind = "next" =>
                        (phase' = "running" /\ addr' = res.addr /\ ram' = res.ram)
                  /\ res.kind = "halt" => (phase' = "halted" /\ ram' = res.ram)
                  /\ res.kind = "panic" => phase' = "aborted" ]_vars
    /\ [][ phase = "halted" => (trace' = trace \/ (trace' = <<>> /\ phase' = "running")) ]_vars

\* The loop went on after a jump and returned on Halt.
C6_Witness ==
    /\ phase = "halted"
    /\ \E i \in 1 .. Len(trace) : Word(tape, trace[i]).op = "JumpNTimes" /\ i < Len(trace)

\* C7: a run of a program without backward jumps ends, and it ends because
\* a handler returned Halt or because the sentinel was dispatched.
C7_Terminates ==
    /\ (phase = "running" /\ NoBackwardJump) ~> (phase \in {"halted", "aborted"})
    /\ [](NoBackwardJump /\ phase = "halted" =>
            why = "halt" /\ Word(tape, trace[Len(trace)]).op = "Return")
    /\ [](NoBackwardJump /\ phase = "aborted" =>
            why = "reached unreachable tape" /\ trace[Len(trace)] = LastStart)

\* A run of three instructions and the sentinel ended at the sentinel.
C7_Witness ==
    /\ phase = "aborted" /\ NoBackwardJump
    /\ Len(trace) = 4

\* Every address dispatched so far in the run, and the current one, came
\* from the start of the tape by Pc::next().
FellThrough ==
    /\ \A i \in 1 .. Len(trace) :
          /\ i = 1 => trace[i] = 0
          /\ i > 1 =>
                /\ Dispatchable(tape, trace[i - 1])
                /\ trace[i] = next(trace[i - 1], Word(tape, trace[i - 1]).op)
    /\ (phase = "running" /\ trace # <<>>) =>
          /\ Dispatchable(tape, trace[Len(trace)])
          /\ addr = next(trace[Len(trace)], Word(tape, trace[Len(trace)]).op)

\* C8: when control falls through the last instruction of the build code
\* (or there is none) the sentinel is dispatched: its handler panics, never
\* giving Ok or Err, the run is over, and no address dispatched in the run
\* was at or past the end of the tape.
C8_FallThroughAborts ==
    /\ [](Built =>
            /\ InTape(tape, LastStart)
            /\ Len(debug_info) = 1 => start_addr(tape, addr) = LastStart
            /\ Len(debug_info) > 1 =>
                  next(debug_info[Len(debug_info) - 1].offset,
                       debug_info[Len(debug_info) - 1].type) = LastStart)
    /\ [][ (phase = "running" /\ addr = LastStart) =>
              /\ exec("Unreachable", tape, addr, ram, debug).kind = "panic"
              /\ phase' = "aborted" /\ why' = "reached unreachable tape" ]_vars
    /\ [](why = "reached unreachable tape" => phase = "aborted")
    /\ []((Built /\ FellThrough) =>
            /\ \A i \in 1 .. Len(trace) : Dispatchable(tape, trace[i])
            /\ phase = "running" => Dispatchable(tape, addr))
    /\ [][ phase = "aborted" => trace' = trace ]_vars

\* A program without instructions, and one whose last instruction is not a
\* Return, ended at the sentinel.
C8_Witness ==
    /\ why = "reached unreachable tape"
    /\ Len(debug_info) = 3
    /\ debug_info[2].type = "PrintLn"
    /\ Len(trace) = 3

\* C9: two runs of a program from equal rams dispatch the same addresses
\* and end the same way with equal rams.
C9_Deterministic ==
    (prev # NoRun /\ phase \in {"halted", "aborted"}) =>
        /\ trace = prev.trace
        /\ ram = prev.ram
        /\ phase = prev.phase
        /\ why = prev.why

\* The number of times the run has dispatched PrintLn.
Prints ==
    Cardinality({i \in 1 .. Len(trace) :
        Dispatchable(tape, trace[i]) /\ Word(tape, trace[i]).op = "PrintLn"})

\* C11: a run of the counted loop [PrintLn, JumpNTimes(back to PrintLn),
\* Return(r)] (with or without the example's leading Nop) from counter n
\* ends by halting, after n + 1 dispatches of PrintLn, with the counter 0
\* and the result r.
C11_CountedLoop ==
    phase \in {"halted", "aborted"} =>
        /\ phase = "halted"
        /\ Prints = ram0.counter + 1
        /\ ram.counter = 0
        /\ ram.rval = ops[Len(ops) - 1].val

\* C12: when Writer::take fails during an emit, in the build code or for
\* the sentinel, the emit ends with UnexpectedEndError as a value and not
\* with a panic, and Program::new ends with that error: no Program exists
\* then or later, and none is produced from a state in which the sentinel
\* does not fit.
C12_TakeFailureIsError ==
    /\ [](why = "UnexpectedEndError" => phase = "failed")
    /\ [](Built /\ cap.bounded => Len(tape) <= cap.words)
    /\ [][phase = "build" /\ ~take_ok(tape, cap, SizeInWords("Unreachable"))
            => phase' # "ready"]_vars

\* C12: Program::new has failed with UnexpectedEndError on a storage that
\* earlier emits had filled to the last word.
C12_Witness ==
    /\ phase = "failed"
    /\ why = "UnexpectedEndError"
    /\ ops # <<>>
    /\ Len(tape) = cap.words

\* C14: an emit of an operation whose Instruction is not aligned to one
\* word panics, whatever the storage can still hold, and it panics before
\* it takes storage: the tape, the cursor and the debug info are at the
\* panic what they were before the call.
C14_OverAlignedPanics ==
    /\ [](phase = "build" => ENABLED EmitPanic(OverAlignedOp))
    /\ [][phase = "build" /\ phase' = "panicked" =>
            /\ why' = "instruction is over-aligned"
            /\ tape' = tape
            /\ word_offset(tape') = word_offset(tape)
            /\ debug_info' = debug_info]_vars

\* C14: the build code has emitted instructions and then an operation of an
\* over-aligned type, on a storage with no room left.
C14_Witness ==
    /\ phase = "panicked"
    /\ why = "instruction is over-aligned"
    /\ debug_info # <<>>
    /\ Len(tape) = cap.words

\* The sizes in words of the instructions of a sequence of operations, summed.
RECURSIVE SizeSum(_)
SizeSum(s) == IF s = <<>> THEN 0 ELSE SizeInWords(Head(s).type) + SizeSum(Tail(s))

\* C15: while the build code runs, offset() is the sum of the sizes in
\* words of the instructions emitted so far (so each emit advances it by
\* the size in words of its instruction).
C15_OffsetIsSumOfSizes ==
    phase = "build" => offset(tape).value = SizeSum(ops)

\* The word position of the instruction emitted right after the one at a.
NextEmitted(a) ==
    LET i == CHOOSE j \in 1 .. Len(debug_info) : debug_info[j].offset = a
    IN  debug_info[i + 1].offset

\* C16: a step of the run at a Nop continues the run at the instruction
\* emitted immediately after that Nop and leaves the ram as it was.
C16_NopContinues ==
    [][phase = "running" /\ Dispatchable(tape, addr) /\ Word(tape, addr).op = "Nop" =>
            /\ phase' = "running"
            /\ addr' = NextEmitted(addr)
            /\ ram' = ram]_vars

\* C16: the run has just executed a Nop that follows another instruction,
\* with a ram that earlier instructions had changed, and stands at a Return.
C16_Witness ==
    /\ phase = "running"
    /\ Len(trace) > 1
    /\ Dispatchable(tape, trace[Len(trace)])
    /\ Word(tape, trace[Len(trace)]).op = "Nop"
    /\ ram # ram0
    /\ Dispatchable(tape, addr)
    /\ Word(tape, addr).op = "Return"

\* C17: once Program::new has returned the Program, no step (the start of
\* a run, an instruction of a run, the end of a run) changes a word of the
\* tape or its length.
C17_RunLeavesTape ==
    [][Built => Len(tape') = Len(tape) /\ \A p \in 0 .. (Len(tape) - 1) : Word(tape', p) = Word(tape, p)]_vars

\* C17: a second run, begun with the ram the first run left, has ended.
C17_Witness ==
    /\ phase = "halted"
    /\ ram0.rval # 0
    /\ Len(trace) > 1

\* The instructions of a sequence of operations laid end to end.
RECURSIVE Layout(_)
Layout(s) == IF s = <<>> THEN <<>> ELSE Instruction(Head(s)) \o Layout(Tail(s))

\* C18: whether debug info is recorded or not, the tape is the layout of
\* the operations emitted, one instruction after the other, and every
\* Offset that offset() returned is the end of the layout of the operations
\* emitted before the call: neither depends on the recording. (A run reads
\* the tape, the ram and nothing else.)
C18_RecordingIsSideChannel ==
    /\ phase # "start" => tape = Layout(ops)
    /\ \A o \in offsets : \E k \in 0 .. Len(ops) :
            /\ o.at = Len(Layout(SubSeq(ops, 1, k)))
            /\ o.value = WordBytes * o.at
    /\ ~alloc => debug_info = <<>>

\* C18: a program with a jump, built without recording, has run and halted.
C18_Witness ==
    /\ ~alloc
    /\ phase = "halted"
    /\ why = "halt"
    /\ offsets # {}
    /\ Len(ops) > MaxInstr
    /\ \E i \in 1 .. Len(ops) : ops[i].type = "JumpNTimes"
    /\ Len(trace) > 2

\* C19 (as stated): with debug assertions, resolve_offset rejects every
\* Offset of another session.
C19_ForeignRejected ==
    debug /\ foreign.resolved => foreign.rejected

\* C19 (amended): resolve_offset rejects an Offset of another session
\* exactly when debug assertions are on and its value is not below the
\* length of the tape; any other it resolves to the word at that value.
C19_ForeignBoundsOnly ==
    foreign.resolved =>
        /\ foreign.rejected <=> (debug /\ foreign.value >= Len(tape))
        /\ foreign.rejected => phase = "aborted"
        /\ ~foreign.rejected => phase = "running" /\ addr = foreign.value

\* C19: with debug assertions, an Offset of another session that this
\* session never took has been resolved, to a word inside the tape.
C19_Witness ==
    /\ debug
    /\ foreign.resolved
    /\ ~foreign.rejected
    /\ foreign.value > 0
    /\ InTape(tape, foreign.value)
    /\ \A o \in offsets : o.value # foreign.value

\* C20: under DirectThreadedLoop at most one handler is active, called and
\* not yet returned, in every state of a run.
C20_OneHandlerActive ==
    Len(stack) <= 1

\* C20: the fourth handler of a run is active, the first three having
\* returned.
C20_Witness ==
    /\ phase = "running"
    /\ Len(trace) > 3
    /\ Len(stack) = 1
    /\ stack[1].addr = trace[Len(trace)]

\* C21: under DirectThreadedCall, while a run goes on every handler called
\* so far is still pending (an exec::<Op> whose operation continues
\* dispatches the next address itself and does not return); an exec::<Op>
\* whose operation halts returns without another dispatch, and then every
\* pending call returns, innermost first, until none is left.
C21_TailDispatch ==
    /\ [](phase = "running" => Len(stack) = Len(trace))
    /\ [](phase = "halted" => stack = <<>>)
    /\ [][phase = "running" /\ stack # <<>> /\ stack[Len(stack)].st = "body" =>
            LET a == stack[Len(stack)].addr
                res == exec(Word(tape, a).op, tape, a, ram, debug)
            IN  /\ res.kind = "next" =>
                    /\ phase' = "running"
                    /\ addr' = res.addr
                    /\ Len(stack') = Len(stack)
                    /\ stack'[Len(stack)] = [addr |-> a, st |-> "tail"]
                /\ res.kind = "halt" =>
                    /\ phase' \in {"returning", "halted"}
                    /\ trace' = trace
                    /\ Len(stack') = Len(stack) - 1]_vars
    /\ [][phase = "running" /\ stack # <<>> /\ stack[Len(stack)].st = "tail"
            /\ Dispatchable(tape, addr) =>
                stack' = Append(stack, [addr |-> addr, st |-> "body"])]_vars
    /\ [][phase = "returning" =>
            trace' = trace /\ ram' = ram /\ Len(stack') = Len(stack) - 1]_vars
    /\ (phase = "returning") ~> (phase = "halted" /\ stack = <<>>)

\* C21: Halt has been produced by the fifth instruction of a run, and
\* three calls are still to return.
C21_Witness ==
    /\ phase = "returning"
    /\ Len(trace) = 5
    /\ Len(stack) = 3

\* The instructions of the run whose operation has been executed: all those
\* dispatched, but for the one whose handler has been called and is still
\* in Op::execute.
Executed ==
    IF phase = "running" /\ stack # <<>> /\ stack[Len(stack)].st = "body"
    THEN Len(trace) - 1
    ELSE Len(trace)

ExecuteOf(ty, t, pc, r, dbg) ==
    CASE ty = "Nop" -> NopExecute(t, pc, r, dbg)
      [] ty = "Unreachable" -> UnreachableExecute(t, pc, r, dbg)
      [] ty = "Return" -> ReturnExecute(t, pc, r, dbg)
      [] ty = "PrintLn" -> PrintLnExecute(t, pc, r, dbg)
      [] ty = "JumpNTimes" -> JumpNTimesExecute(t, pc, r, dbg)

\* The emitted instruction that begins at word position a (0 if none does).
EmittedAt(a) ==
    IF \E i \in 1 .. Len(ops) : Len(Layout(SubSeq(ops, 1, i - 1))) = a
    THEN CHOOSE i \in 1 .. Len(ops) : Len(Layout(SubSeq(ops, 1, i - 1))) = a
    ELSE 0

\* C23: in a Program, the word at which an emitted instruction begins holds
\* the token of its type, the same for every instruction of that type, and
\* the payload behind it reads back as the value emitted; a step of the run
\* at that address does what execute of that type does on that value.
C23_DecodeFidelity ==
    /\ [](Built => \A i \in 1 .. Len(ops) :
            LET a == Len(Layout(SubSeq(ops, 1, i - 1)))
            IN  /\ Word(tape, a).k = "token"
                /\ Word(tape, a).op = ops[i].type
                /\ \A j \in 1 .. Len(ops) : ops[j].type = ops[i].type =>
                        Word(tape, Len(Layout(SubSeq(ops, 1, j - 1)))) = Word(tape, a)
                /\ ops[i].type \in {"Return", "JumpNTimes"} =>
                        op_field(tape, a).val = ops[i].val)
    /\ [][phase = "running" /\ EmittedAt(addr) # 0 =>
            LET nxt == loop_iteration(addr,
                           ExecuteOf(ops[EmittedAt(addr)].type, tape, addr, ram, debug))
            IN  phase' = nxt.phase /\ addr' = nxt.addr /\ ram' = nxt.ram /\ why' = nxt.why]_vars

\* C23: a run has executed a Return emitted after instructions of other
\* sizes, and the ram holds the value it was emitted with.
C23_Witness ==
    /\ phase = "halted"
    /\ why = "halt"
    /\ Len(ops) = MaxInstr + 1
    /\ ops[1].type = "PrintLn"
    /\ ops[MaxInstr].type = "Return"
    /\ ram.rval = ops[MaxInstr].val
    /\ ram0.rval # ram.rval

\* The word position at which the i-th emitted instruction begins.
StartOf(i) == Len(Layout(SubSeq(ops, 1, i - 1)))

\* C24: Pc::next at the start of an emitted instruction is that start plus
\* the size in words of its record, which is where the instruction emitted
\* right after it begins; for the last instruction of the build code that
\* is the sentinel, and during the build the cursor.
C24_NextIsFollowing ==
    /\ phase = "build" \/ Built => \A i \in 1 .. Len(ops) :
        /\ next(StartOf(i), ops[i].type) = StartOf(i) + SizeInWords(ops[i].type)
        /\ i < Len(ops) =>
            /\ next(StartOf(i), ops[i].type) = StartOf(i + 1)
            /\ Word(tape, next(StartOf(i), ops[i].type)) = TokenWord(ops[i + 1].type)
        /\ i = Len(ops) => next(StartOf(i), ops[i].type) = word_offset(tape)
    /\ Built => \A i \in 1 .. Len(ops) - 1 :
            i = Len(ops) - 1 =>
                Word(tape, next(StartOf(i), ops[i].type)) = TokenWord("Unreachable")

\* C24: a run went through instructions of three, one and two words, each
\* reached by next from the one before.
C24_Witness ==
    /\ phase = "halted"
    /\ Len(ops) = 4
    /\ ops[1].type = "PrintLn"
    /\ ops[2].type = "Nop"
    /\ ops[3].type = "Return"
    /\ trace = <<0, 3, 4>>

\* C25: a step of the build code (emit or offset) leaves every word that was
\* on the tape as it was; emit adds the record of its instruction at the
\* cursor and nothing else; offset() changes neither the tape nor the cursor.
C25_NoBackpatching ==
    [][phase = "build" =>
        /\ Len(tape') >= Len(tape)
        /\ \A p \in 0 .. Len(tape) - 1 : Word(tape', p) = Word(tape, p)
        /\ ops' # ops =>
                /\ Len(tape') = Len(tape) + SizeInWords(ops'[Len(ops')].type)
                /\ SubSeq(tape', Len(tape) + 1, Len(tape')) = Instruction(ops'[Len(ops')])
        /\ offsets' # offsets =>
                /\ tape' = tape
                /\ word_offset(tape') = word_offset(tape)
                /\ offset(tape') = offset(tape)]_vars

\* C25: the build code took an offset between two emits and emitted a jump
\* to it afterwards; the tape is still what the emits wrote, in order.
C25_Witness ==
    /\ phase = "build"
    /\ Len(ops) = MaxInstr
    /\ ops[MaxInstr].type = "JumpNTimes"
    /\ \E o \in offsets : o.at > 0 /\ o.at < Len(tape)
    /\ tape = Layout(ops)

\* C26: from Builder::new on, no call of the build session (an emit that
\* returns Ok, one that returns Err, one that panics, offset(), the
\* sentinel) makes the tape shorter or makes offset() return less than it
\* would have returned before; every Offset taken is at most the cursor.
C26_CursorMonotonic ==
    /\ [][phase = "build" =>
            /\ Len(tape') >= Len(tape)
            /\ word_offset(tape') >= word_offset(tape)
            /\ offset(tape').value >= offset(tape).value]_vars
    /\ [](phase \in {"build", "failed", "panicked"} =>
            \A o \in offsets : o.value <= offset(tape).value)

\* C26: an emit failed for want of room after an emit that succeeded and an
\* offset() taken behind it; the cursor is where the last good emit left it.
C26_Witness ==
    /\ phase = "failed"
    /\ why = "UnexpectedEndError"
    /\ ops # <<>>
    /\ \E o \in offsets : o.at > 0 /\ o.value = offset(tape).value
    /\ Len(tape) < cap.words

\* C27: whatever words the storage held when it was handed to Program::new,
\* the build code finds the cursor at 0 (the first offset() is 0 and the
\* first instruction begins at word 0), and the finished tape holds the
\* instructions of this session in order and no other word.
C27_StartsCleared ==
    /\ phase = "build" /\ ops = <<>> =>
            /\ tape = <<>>
            /\ offset(tape).value = 0
            /\ \A o \in offsets : o.value = 0
    /\ phase = "build" \/ Built =>
            /\ tape = Layout(ops)
            /\ ops # <<>> => Word(tape, 0) = TokenWord(ops[1].type)
            /\ debug_info # <<>> => debug_info[1].offset = 0

\* C27: a Program was built on a storage that held the instruction of an
\* earlier session, and the build code took an offset before its first emit.
C27_Witness ==
    /\ phase = "ready"
    /\ stale.recorded
    /\ stale.words = Instruction(ReturnOp(MaxVal))
    /\ \E o \in offsets : o.value = 0
    /\ Len(ops) > 1
    /\ ops[1].type # "Return"

\* C28: when the build code returns an error, Program::new returns it at
\* once: the step that fails emits nothing (no sentinel), what follows is no
\* Program, and nothing happens afterwards, no run on the partial tape and
\* no resolution of an Offset the build code took.
C28_BuildErrorReturned ==
    /\ [](why = "build error" =>
            /\ phase = "failed"
            /\ ~Built
            /\ \A i \in 1 .. Len(ops) : ops[i].type # "Unreachable"
            /\ \A p \in 0 .. Len(tape) - 1 : Word(tape, p) # TokenWord("Unreachable")
            /\ trace = <<>>
            /\ prev = NoRun
            /\ stack = <<>>)
    /\ [][phase = "build" /\ why' = "build error" =>
            /\ tape' = tape
            /\ ops' = ops
            /\ debug_info' = debug_info]_vars
    /\ [][phase # "failed"]_vars

\* C28: the build code emitted a jump to an Offset it had taken and then
\* returned an error; there is a partial tape and no Program.
C28_Witness ==
    /\ phase = "failed"
    /\ why = "build error"
    /\ ops # <<>>
    /\ ops[Len(ops)].type = "JumpNTimes"
    /\ offsets # {}
    /\ tape = Layout(ops)

\* C29 as stated: each entry of the debug info of a Program holds the
\* offset in bytes from the base of the tape at which its instruction begins.
C29_RecordsByteOffset ==
    Built /\ alloc =>
        /\ Len(debug_info) = Len(ops)
        /\ \A i \in 1 .. Len(debug_info) :
                debug_info[i].offset = StartOf(i) * WordBytes

\* C29: with recording enabled the debug info holds one entry per emitted
\* instruction, the sentinel included, in the order of emission; the offset
\* of an entry is the offset in words at which its instruction begins, which
\* is the word the dump walker reads it from; an emit that fails or panics
\* pushes no entry.
C29_RecordsWordOffset ==
    /\ [](alloc /\ (phase \in {"build", "failed", "panicked"} \/ Built) =>
            /\ Len(debug_info) = Len(ops)
            /\ \A i \in 1 .. Len(debug_info) :
                    /\ debug_info[i].type = ops[i].type
                    /\ debug_info[i].offset = StartOf(i)
                    /\ dump_position(debug_info[i]) = StartOf(i)
                    /\ Word(tape, dump_position(debug_info[i])) = TokenWord(ops[i].type))
    /\ [](Built /\ alloc => debug_info[Len(debug_info)].type = "Unreachable")
    /\ [][phase = "build" /\ phase' \in {"failed", "panicked"} =>
            debug_info' = debug_info]_vars

\* C29: a Program of a Return, a Nop and the sentinel was built on a storage
\* they just fit in; the entry of the sentinel is at word 3, byte 24.
C29_Witness ==
    /\ phase = "ready"
    /\ alloc
    /\ cap.bounded
    /\ Len(debug_info) = 3
    /\ debug_info[1].type = "Return"
    /\ debug_info[2].type = "Nop"
    /\ debug_info[3].type = "Unreachable"
    /\ Len(tape) = cap.words
    /\ dump_position(debug_info[3]) = StartOf(3)
    /\ StartOf(3) # StartOf(3) * WordBytes

====
